---------------------------- MODULE Spec2Model ----------------------------
(***************************************************************************)
(* Provider-directory validation service (CortexSyncDirect).               *)
(*                                                                         *)
(* orchestrator.py : the five workflow nodes, the router and the mock      *)
(*                   record table;                                         *)
(* app.py          : the /api/validate handler and the lazily created      *)
(*                   global workflow graph.                                *)
(*                                                                         *)
(* A Python str is modelled as a sequence of one-character strings, so     *)
(* that lower(), strip(), split() and the `in` substring test are computed *)
(* character by character.  A dict is a function whose DOMAIN is its key   *)
(* set.                                                                    *)
(***************************************************************************)
EXTENDS Integers, Sequences, FiniteSets, TLC

VARIABLES
    workflow_graph,        \* app.py global: "None" or "compiled"
    undeclared_keys_kept,  \* how the graph runtime treats a key that AgentState does not declare
    pc,                    \* position of the request being served
    request_id,            \* request.provider_id of the request being served
    state,                 \* the AgentState dict travelling through the graph
    qa_input,              \* the dict quality_assurance_node was called with
    executed,              \* node names run by the current graph.invoke, in order
    graph_at_entry,        \* workflow_graph when the current request arrived
    graphs_created,        \* calls of create_workflow_graph so far
    log                    \* completed requests, oldest first

vars == <<workflow_graph, undeclared_keys_kept, pc, request_id, state,
          qa_input, executed, graph_at_entry, graphs_created, log>>

(***************************************************************************)
(* Bounds of the model.                                                    *)
(***************************************************************************)
MaxPairLen == 4      \* characters in a generic pair of field values, both sides together
HintSlack == 3       \* baseline hints range over -HintSlack .. 100+HintSlack
MaxRequests == 3     \* requests served in one run of the service

(***************************************************************************)
(* str helpers.                                                            *)
(***************************************************************************)
UpperCase == <<"A","B","C","D","E","F","G","H","I","J","K","L","M",
           "N","O","P","Q","R","S","T","U","V","W","X","Y","Z">>
LowerCase == <<"a","b","c","d","e","f","g","h","i","j","k","l","m",
           "n","o","p","q","r","s","t","u","v","w","x","y","z">>
Whitespace == {" ", "\t", "\n", "\r"}

\* str.lower(), one character
lower_char(c) ==
    IF \E i \in 1..Len(UpperCase) : UpperCase[i] = c
    THEN LowerCase[CHOOSE i \in 1..Len(UpperCase) : UpperCase[i] = c]
    ELSE c

\* str.lower()
lower(s) == [i \in 1..Len(s) |-> lower_char(s[i])]

\* str.strip(): drop leading and trailing whitespace
strip(s) ==
    LET solid == {i \in 1..Len(s) : s[i] \notin Whitespace}
    IN  IF solid = {} THEN <<>>
        ELSE SubSeq(s, CHOOSE i \in solid : \A j \in solid : i <= j,
                       CHOOSE i \in solid : \A j \in solid : j <= i)

\* len(s.split()): the number of maximal runs of non-whitespace characters
split_len(s) ==
    Cardinality({i \in 1..Len(s) :
                    /\ s[i] \notin Whitespace
                    /\ (i = 1 \/ s[i-1] \in Whitespace)})

\* mutant: the empty str is contained in nothing
contains_nonempty(a, b) ==
    /\ a # <<>>
    /\ \E k \in 0..(Len(b) - Len(a)) : SubSeq(b, k + 1, k + Len(a)) = a

\* a in b, for two strs
contains(a, b) ==
    \E k \in 0..(Len(b) - Len(a)) : SubSeq(b, k + 1, k + Len(a)) = a

\* max(0, x)
max0(x) == IF x > 0 THEN x ELSE 0

(***************************************************************************)
(* get_mock_provider_data: the record table.                               *)
(***************************************************************************)
provider_1001 ==
    [db |->
       [id |-> 1001,
        name |-> <<"D","r","."," ","R","a","j","e","s","h"," ","K","u","m","a","r">>,
        specialty |-> <<"C","a","r","d","i","o","l","o","g","y">>,
        phone |-> <<"+","9","1","-","1","1","-","2","6","5","8","-","3","4","5","6">>,
        address |-> <<"A","-","1","2","3",","," ","G","r","e","e","n"," ","P","a","r","k">>,
        city |-> <<"N","e","w"," ","D","e","l","h","i">>,
        state |-> <<"D","e","l","h","i">>,
        zip |-> <<"1","1","0","0","1","6">>,
        license_number |-> <<"M","C","I","/","D","E","L","/","1","2","3","4","5","/","2","0","1","0">>,
        npi |-> <<"9","8","7","6","5","4","3","2","1","0">>],
     scraped |->
       [id |-> 1001,
        name |-> <<"D","r","."," ","R","a","j","e","s","h"," ","K","u","m","a","r">>,
        specialty |-> <<"C","a","r","d","i","o","l","o","g","y">>,
        phone |-> <<"+","9","1","-","1","1","-","2","6","5","8","-","3","4","5","6">>,
        address |-> <<"A","-","1","2","3",","," ","G","r","e","e","n"," ","P","a","r","k">>,
        city |-> <<"N","e","w"," ","D","e","l","h","i">>,
        state |-> <<"D","e","l","h","i">>,
        zip |-> <<"1","1","0","0","1","6">>,
        license_number |-> <<"M","C","I","/","D","E","L","/","1","2","3","4","5","/","2","0","1","0">>,
        npi |-> <<"9","8","7","6","5","4","3","2","1","0">>],
     confidence |-> 85]

provider_1002 ==
    [db |->
       [id |-> 1002,
        name |-> <<"D","r","."," ","P","r","i","y","a"," ","S","h","a","r","m","a">>,
        specialty |-> <<"P","e","d","i","a","t","r","i","c","s">>,
        phone |-> <<"+","9","1","-","2","2","-","2","6","4","5","-","7","8","9","0">>,
        address |-> <<"B","-","4","5","6",","," ","B","a","n","d","r","a"," ","W","e","s","t">>,
        city |-> <<"M","u","m","b","a","i">>,
        state |-> <<"M","a","h","a","r","a","s","h","t","r","a">>,
        zip |-> <<"4","0","0","0","5","0">>,
        license_number |-> <<"M","C","I","/","M","A","H","/","2","3","4","5","6","/","2","0","1","2">>,
        npi |-> <<"8","7","6","5","4","3","2","1","0","9">>],
     scraped |->
       [id |-> 1002,
        name |-> <<"D","r","."," ","P","r","i","y","a"," ","S","h","a","r","m","a">>,
        specialty |-> <<"P","e","d","i","a","t","r","i","c","s">>,
        phone |-> <<"+","9","1","-","2","2","-","2","6","4","5","-","7","8","9","0">>,
        address |-> <<"B","-","4","5","6",","," ","B","a","n","d","r","a"," ","W","e","s","t">>,
        city |-> <<"M","u","m","b","a","i">>,
        state |-> <<"M","a","h","a","r","a","s","h","t","r","a">>,
        zip |-> <<"4","0","0","0","5","0">>,
        license_number |-> <<"M","C","I","/","M","A","H","/","2","3","4","5","6","/","2","0","1","2">>,
        npi |-> <<"8","7","6","5","4","3","2","1","0","9">>],
     confidence |-> 92]

provider_1003 ==
    [db |->
       [id |-> 1003,
        name |-> <<"D","r","."," ","A","m","i","t"," ","P","a","t","e","l">>,
        specialty |-> <<"O","r","t","h","o","p","e","d","i","c","s">>,
        phone |-> <<"+","9","1","-","7","9","-","2","6","5","8","-","1","2","3","4">>,
        address |-> <<"C","-","7","8","9",","," ","S","a","t","e","l","l","i","t","e">>,
        city |-> <<"A","h","m","e","d","a","b","a","d">>,
        state |-> <<"G","u","j","a","r","a","t">>,
        zip |-> <<"3","8","0","0","1","5">>,
        license_number |-> <<"M","C","I","/","G","U","J","/","3","4","5","6","7","/","2","0","1","5">>,
        npi |-> <<"7","6","5","4","3","2","1","0","9","8">>],
     scraped |->
       [id |-> 1003,
        name |-> <<"D","r","."," ","A","m","i","t"," ","P","a","t","e","l">>,
        specialty |-> <<"O","r","t","h","o","p","e","d","i","c","s">>,
        phone |-> <<"+","9","1","-","7","9","-","2","6","5","8","-","1","2","3","4">>,
        address |-> <<"C","-","7","8","9",","," ","S","a","t","e","l","l","i","t","e"," ","A","r","e","a">>,
        city |-> <<"A","h","m","e","d","a","b","a","d">>,
        state |-> <<"G","u","j","a","r","a","t">>,
        zip |-> <<"3","8","0","0","1","5">>,
        license_number |-> <<"M","C","I","/","G","U","J","/","3","4","5","6","7","/","2","0","1","5">>,
        npi |-> <<"7","6","5","4","3","2","1","0","9","8">>],
     confidence |-> 88]

provider_2001 ==
    [db |->
       [id |-> 2001,
        name |-> <<"D","r","."," ","A","n","j","a","l","i"," ","R","e","d","d","y">>,
        specialty |-> <<"D","e","r","m","a","t","o","l","o","g","y">>,
        phone |-> <<"+","9","1","-","4","0","-","2","7","8","9","-","4","5","6","7">>,
        address |-> <<"D","-","3","2","1",","," ","B","a","n","j","a","r","a"," ","H","i","l","l","s">>,
        city |-> <<"H","y","d","e","r","a","b","a","d">>,
        state |-> <<"T","e","l","a","n","g","a","n","a">>,
        zip |-> <<"5","0","0","0","3","4">>,
        license_number |-> <<"M","C","I","/","T","E","L","/","4","5","6","7","8","/","2","0","1","1">>,
        npi |-> <<"6","5","4","3","2","1","0","9","8","7">>],
     scraped |->
       [id |-> 2001,
        name |-> <<"D","r","."," ","A","n","j","a","l","i"," ","R","e","d","d","y">>,
        specialty |-> <<"D","e","r","m","a","t","o","l","o","g","y">>,
        phone |-> <<"+","9","1","-","4","0","-","2","7","8","9","-","4","5","6","8">>,
        address |-> <<"D","-","3","2","1",","," ","B","a","n","j","a","r","a"," ","H","i","l","l","s">>,
        city |-> <<"H","y","d","e","r","a","b","a","d">>,
        state |-> <<"T","e","l","a","n","g","a","n","a">>,
        zip |-> <<"5","0","0","0","3","4">>,
        license_number |-> <<"M","C","I","/","T","E","L","/","4","5","6","7","8","/","2","0","1","1">>,
        npi |-> <<"6","5","4","3","2","1","0","9","8","7">>],
     confidence |-> 78]

provider_2002 ==
    [db |->
       [id |-> 2002,
        name |-> <<"D","r","."," ","V","i","k","r","a","m"," ","S","i","n","g","h">>,
        specialty |-> <<"N","e","u","r","o","l","o","g","y">>,
        phone |-> <<"+","9","1","-","8","0","-","2","5","5","8","-","9","8","7","6">>,
        address |-> <<"E","-","6","5","4",","," ","K","o","r","a","m","a","n","g","a","l","a">>,
        city |-> <<"B","a","n","g","a","l","o","r","e">>,
        state |-> <<"K","a","r","n","a","t","a","k","a">>,
        zip |-> <<"5","6","0","0","9","5">>,
        license_number |-> <<"M","C","I","/","K","A","R","/","5","6","7","8","9","/","2","0","1","3">>,
        npi |-> <<"5","4","3","2","1","0","9","8","7","6">>],
     scraped |->
       [id |-> 2002,
        name |-> <<"D","r","."," ","V","i","k","r","a","m"," ","S","i","n","g","h">>,
        specialty |-> <<"N","e","u","r","o","l","o","g","y">>,
        phone |-> <<"+","9","1","-","8","0","-","2","5","5","8","-","9","8","7","6">>,
        address |-> <<"E","-","6","5","4",","," ","K","o","r","a","m","a","n","g","a","l","a"," ","5","t","h"," ","B","l","o","c","k">>,
        city |-> <<"B","a","n","g","a","l","o","r","e">>,
        state |-> <<"K","a","r","n","a","t","a","k","a">>,
        zip |-> <<"5","6","0","0","9","5">>,
        license_number |-> <<"M","C","I","/","K","A","R","/","5","6","7","8","9","/","2","0","1","3">>,
        npi |-> <<"5","4","3","2","1","0","9","8","7","6">>],
     confidence |-> 75]

provider_3001 ==
    [db |->
       [id |-> 3001,
        name |-> <<"D","r","."," ","M","e","e","r","a"," ","N","a","i","r">>,
        specialty |-> <<"G","y","n","e","c","o","l","o","g","y">>,
        phone |-> <<"+","9","1","-","4","4","-","2","8","4","5","-","2","3","4","5">>,
        address |-> <<"F","-","9","8","7",","," ","T","."," ","N","a","g","a","r">>,
        city |-> <<"C","h","e","n","n","a","i">>,
        state |-> <<"T","a","m","i","l"," ","N","a","d","u">>,
        zip |-> <<"6","0","0","0","1","7">>,
        license_number |-> <<"M","C","I","/","T","N","/","6","7","8","9","0","/","2","0","1","4">>,
        npi |-> <<"4","3","2","1","0","9","8","7","6","5">>],
     scraped |->
       [id |-> 3001,
        name |-> <<"D","r","."," ","M","e","e","r","a"," ","N","a","i","r">>,
        specialty |-> <<"G","y","n","e","c","o","l","o","g","y">>,
        phone |-> <<"+","9","1","-","4","4","-","2","8","4","5","-","2","3","4","6">>,
        address |-> <<"F","-","9","8","7",","," ","T","h","y","a","g","a","r","a","y","a"," ","N","a","g","a","r">>,
        city |-> <<"C","h","e","n","n","a","i">>,
        state |-> <<"T","a","m","i","l"," ","N","a","d","u">>,
        zip |-> <<"6","0","0","0","1","7">>,
        license_number |-> <<"M","C","I","/","T","N","/","6","7","8","9","0","/","2","0","1","4">>,
        npi |-> <<"4","3","2","1","0","9","8","7","6","5">>],
     confidence |-> 65]

provider_3002 ==
    [db |->
       [id |-> 3002,
        name |-> <<"D","r","."," ","R","a","v","i"," ","I","y","e","r">>,
        specialty |-> <<"O","n","c","o","l","o","g","y">>,
        phone |-> <<"+","9","1","-","3","3","-","2","4","4","5","-","6","7","8","9">>,
        address |-> <<"G","-","1","4","7",","," ","S","a","l","t"," ","L","a","k","e">>,
        city |-> <<"K","o","l","k","a","t","a">>,
        state |-> <<"W","e","s","t"," ","B","e","n","g","a","l">>,
        zip |-> <<"7","0","0","0","6","4">>,
        license_number |-> <<"M","C","I","/","W","B","/","7","8","9","0","1","/","2","0","1","6">>,
        npi |-> <<"3","2","1","0","9","8","7","6","5","4">>],
     scraped |->
       [id |-> 3002,
        name |-> <<"D","r","."," ","R","a","v","i"," ","I","y","e","r">>,
        specialty |-> <<"O","n","c","o","l","o","g","y">>,
        phone |-> <<"+","9","1","-","3","3","-","2","4","4","5","-","6","7","9","0">>,
        address |-> <<"G","-","1","4","7",","," ","S","a","l","t"," ","L","a","k","e"," ","C","i","t","y">>,
        city |-> <<"K","o","l","k","a","t","a">>,
        state |-> <<"W","e","s","t"," ","B","e","n","g","a","l">>,
        zip |-> <<"7","0","0","0","6","4">>,
        license_number |-> <<"M","C","I","/","W","B","/","7","8","9","0","1","/","2","0","1","6">>,
        npi |-> <<"3","2","1","0","9","8","7","6","5","4">>],
     confidence |-> 68]

provider_4001 ==
    [db |->
       [id |-> 4001,
        name |-> <<"D","r","."," ","K","a","v","i","t","a"," ","D","e","s","a","i">>,
        specialty |-> <<"E","n","d","o","c","r","i","n","o","l","o","g","y">>,
        phone |-> <<"+","9","1","-","2","0","-","2","5","5","8","-","3","4","5","6">>,
        address |-> <<"H","-","2","5","8",","," ","K","o","r","e","g","a","o","n"," ","P","a","r","k">>,
        city |-> <<"P","u","n","e">>,
        state |-> <<"M","a","h","a","r","a","s","h","t","r","a">>,
        zip |-> <<"4","1","1","0","0","1">>,
        license_number |-> <<"M","C","I","/","M","A","H","/","8","9","0","1","2","/","2","0","1","7">>,
        npi |-> <<"2","1","0","9","8","7","6","5","4","3">>],
     scraped |->
       [id |-> 4001,
        name |-> <<"D","r","."," ","K","a","v","i","t","a"," ","D","e","s","a","i">>,
        specialty |-> <<"E","n","d","o","c","r","i","n","o","l","o","g","y">>,
        phone |-> <<"+","9","1","-","2","0","-","2","5","5","8","-","3","4","5","6">>,
        address |-> <<"H","-","2","5","8",","," ","K","o","r","e","g","a","o","n"," ","P","a","r","k">>,
        city |-> <<"P","u","n","e">>,
        state |-> <<"M","a","h","a","r","a","s","h","t","r","a">>,
        zip |-> <<"4","1","1","0","0","1">>,
        license_number |-> <<"M","C","I","/","M","A","H","/","8","9","0","1","2","/","2","0","1","7">>,
        npi |-> <<"2","1","0","9","8","7","6","5","4","3">>],
     confidence |-> 90]

default_provider(pid) ==
    [db |->
       [id |-> pid,
        name |-> <<"D","r","."," ","A","r","j","u","n"," ","M","e","h","t","a">>,
        specialty |-> <<"G","e","n","e","r","a","l"," ","M","e","d","i","c","i","n","e">>,
        phone |-> <<"+","9","1","-","1","1","-","2","6","5","8","-","3","4","5","6">>,
        address |-> <<"I","-","3","6","9",","," ","C","o","n","n","a","u","g","h","t"," ","P","l","a","c","e">>,
        city |-> <<"N","e","w"," ","D","e","l","h","i">>,
        state |-> <<"D","e","l","h","i">>,
        zip |-> <<"1","1","0","0","0","1">>,
        license_number |-> <<"M","C","I","/","D","E","L","/","9","0","1","2","3","/","2","0","1","8">>,
        npi |-> <<"1","0","9","8","7","6","5","4","3","2">>],
     scraped |->
       [id |-> pid,
        name |-> <<"D","r","."," ","A","r","j","u","n"," ","M","e","h","t","a">>,
        specialty |-> <<"G","e","n","e","r","a","l"," ","M","e","d","i","c","i","n","e">>,
        phone |-> <<"+","9","1","-","1","1","-","2","6","5","8","-","3","4","5","7">>,
        address |-> <<"I","-","3","6","9",","," ","C","o","n","n","a","u","g","h","t"," ","P","l","a","c","e">>,
        city |-> <<"N","e","w"," ","D","e","l","h","i">>,
        state |-> <<"D","e","l","h","i">>,
        zip |-> <<"1","1","0","0","0","1">>,
        license_number |-> <<"M","C","I","/","D","E","L","/","9","0","1","2","3","/","2","0","1","8">>,
        npi |-> <<"1","0","9","8","7","6","5","4","3","2">>],
     confidence |-> 75]

TableIds == {1001, 1002, 1003, 2001, 2002, 3001, 3002, 4001}

get_mock_provider_data(pid) ==
    CASE pid = 1001 -> provider_1001
      [] pid = 1002 -> provider_1002
      [] pid = 1003 -> provider_1003
      [] pid = 2001 -> provider_2001
      [] pid = 2002 -> provider_2002
      [] pid = 3001 -> provider_3001
      [] pid = 3002 -> provider_3002
      [] pid = 4001 -> provider_4001
      [] OTHER      -> default_provider(pid)

(***************************************************************************)
(* AgentState and the graph runtime's state channels.                      *)
(***************************************************************************)
AgentStateKeys ==
    {"provider_id", "current_db_data", "scraped_data",
     "discrepancies", "confidence_score", "status"}

\* dict assignment d[k] = v (the key is added when absent)
dict_set(d, k, v) ==
    [x \in DOMAIN d \cup {k} |-> IF x = k THEN v ELSE d[x]]

\* StateGraph(AgentState) holds one channel per key AgentState declares.
\* A node's returned dict is written back key by key; the langgraph runtime,
\* which is not code of this repository, decides whether a key outside
\* AgentState ("_expected_confidence") survives to the next node.
write_channels(returned) ==
    IF undeclared_keys_kept
    THEN returned
    ELSE [k \in DOMAIN returned \cap AgentStateKeys |-> returned[k]]

(***************************************************************************)
(* Workflow nodes.                                                         *)
(***************************************************************************)
fetch_provider_node(s) ==
    LET provider_data == get_mock_provider_data(s["provider_id"])
        s1 == dict_set(s, "_expected_confidence", provider_data.confidence)
        s2 == dict_set(s1, "current_db_data", provider_data.db)
    IN  dict_set(s2, "status", "pending")

scrape_web_node(s) ==
    LET provider_data == get_mock_provider_data(s["provider_id"])
        s1 == dict_set(s, "scraped_data", provider_data.scraped)
    IN  dict_set(s1, "discrepancies", <<>>)

fields_to_compare ==
    <<"name", "specialty", "phone", "address", "city", "state", "zip",
      "license_number", "npi">>

\* dict.get(field, "")
dict_get(d, field) == IF field \in DOMAIN d THEN d[field] ELSE <<>>

\* str(value).lower().strip(); every value of the model is already a str
normalized(value) == strip(lower(value))

\* mutant: the word-count allowance is applied to every field
is_minor_variation_any_field(field, db_normalized, scraped_normalized) ==
    \/ contains(db_normalized, scraped_normalized)
    \/ contains(scraped_normalized, db_normalized)
    \/ split_len(db_normalized) = split_len(scraped_normalized) - 1

\* mutant: containment is tested in one direction only
is_minor_variation_one_way(field, db_normalized, scraped_normalized) ==
    \/ contains(db_normalized, scraped_normalized)
    \/ /\ field = "address"
       /\ split_len(db_normalized) = split_len(scraped_normalized) - 1

is_minor_variation(field, db_normalized, scraped_normalized) ==
    \/ contains(db_normalized, scraped_normalized)
    \/ contains(scraped_normalized, db_normalized)
    \/ /\ field = "address"
       /\ split_len(db_normalized) = split_len(scraped_normalized) - 1

\* one pass of the for loop: the discrepancy appended for `field`, if any
field_discrepancy(db_data, scraped_data, field) ==
    LET db_value == dict_get(db_data, field)
        scraped_value == dict_get(scraped_data, field)
        db_normalized == normalized(db_value)
        scraped_normalized == normalized(scraped_value)
    IN  IF /\ db_normalized # scraped_normalized
           /\ ~ is_minor_variation(field, db_normalized, scraped_normalized)
        THEN << [field |-> field, db_value |-> db_value,
                 scraped_value |-> scraped_value] >>
        ELSE <<>>

RECURSIVE compare_fields(_, _, _)
\* the for loop over fields_to_compare[i..]
compare_fields(db_data, scraped_data, i) ==
    IF i > Len(fields_to_compare) THEN <<>>
    ELSE field_discrepancy(db_data, scraped_data, fields_to_compare[i])
         \o compare_fields(db_data, scraped_data, i + 1)

\* the branch taken when "_expected_confidence" is in state
adjusted_confidence(expected, discrepancy_count) ==
    IF discrepancy_count > 0
    THEN max0(expected - discrepancy_count * 5)
    ELSE expected

\* mutant: the linear formula without the special cases for 0 and 1
fallback_confidence_linear(discrepancy_count) ==
    max0(100 - discrepancy_count * 20)

\* the fallback calculation
fallback_confidence(discrepancy_count) ==
    IF discrepancy_count = 0 THEN 95
    ELSE IF discrepancy_count = 1 THEN 75
    ELSE max0(100 - discrepancy_count * 20)

quality_assurance_node(s) ==
    LET discrepancies == compare_fields(s["current_db_data"], s["scraped_data"], 1)
        confidence_score ==
            IF "_expected_confidence" \in DOMAIN s
            THEN adjusted_confidence(s["_expected_confidence"], Len(discrepancies))
            ELSE fallback_confidence(Len(discrepancies))
        s1 == dict_set(s, "discrepancies", discrepancies)
    IN  dict_set(s1, "confidence_score", confidence_score)

update_db_node(s) == dict_set(s, "status", "verified")

\* mutant: flagging hands the record on with an emptied discrepancy list
flag_review_node_clears(s) ==
    dict_set(dict_set(s, "status", "flagged"), "discrepancies", <<>>)

flag_review_node(s) == dict_set(s, "status", "flagged")

\* mutant: the threshold is not strict
should_update_db_ge(s) ==
    IF s["confidence_score"] >= 80 THEN "update_db" ELSE "flag_review"

\* mutant: the threshold of the medium band is used
should_update_db_70(s) ==
    IF s["confidence_score"] > 70 THEN "update_db" ELSE "flag_review"

\* the conditional edge after quality_assurance
should_update_db(s) ==
    IF s["confidence_score"] > 80 THEN "update_db" ELSE "flag_review"

(***************************************************************************)
(* graph.invoke: one step per node of the compiled graph                   *)
(* (create_workflow_graph: fetch_provider -> scrape_web ->                 *)
(* quality_assurance -> update_db | flag_review -> END).                   *)
(***************************************************************************)
\* create_workflow_graph: the entry point and the edges
entry_point == "fetch_provider"

\* mutant: flag_review leads back to the entry point
edge_with_cycle(node) ==
    CASE node = "fetch_provider" -> "scrape_web"
      [] node = "scrape_web"     -> "quality_assurance"
      [] node = "update_db"      -> "END"
      [] node = "flag_review"    -> "fetch_provider"

edge(node) ==
    CASE node = "fetch_provider" -> "scrape_web"
      [] node = "scrape_web"     -> "quality_assurance"
      [] node = "update_db"      -> "END"
      [] node = "flag_review"    -> "END"

\* the mapping handed to add_conditional_edges
conditional_edge(label) ==
    CASE label = "update_db"   -> "update_db"
      [] label = "flag_review" -> "flag_review"

RunNode(name, returned, next) ==
    /\ pc = name
    /\ state' = write_channels(returned)
    /\ executed' = Append(executed, name)
    /\ pc' = next
    /\ UNCHANGED <<workflow_graph, undeclared_keys_kept, request_id,
                   graph_at_entry, graphs_created, log>>

FetchProvider ==
    /\ RunNode("fetch_provider", fetch_provider_node(state),
               edge("fetch_provider"))
    /\ UNCHANGED qa_input

ScrapeWeb ==
    /\ RunNode("scrape_web", scrape_web_node(state), edge("scrape_web"))
    /\ UNCHANGED qa_input

QualityAssurance ==
    /\ RunNode("quality_assurance", quality_assurance_node(state),
               conditional_edge(
                   should_update_db(write_channels(quality_assurance_node(state)))))
    /\ qa_input' = state

UpdateDb ==
    /\ RunNode("update_db", update_db_node(state), edge("update_db"))
    /\ UNCHANGED qa_input

FlagReview ==
    /\ RunNode("flag_review", flag_review_node(state), edge("flag_review"))
    /\ UNCHANGED qa_input

(***************************************************************************)
(* app.py: get_workflow_graph and the /api/validate handler.               *)
(***************************************************************************)
\* mutant: the value read before the lazy creation is returned
get_workflow_graph_stale ==
    [returned |-> workflow_graph, global |-> "compiled",
     created |-> (workflow_graph = "None")]

\* mutant: the graph is built again on every call
get_workflow_graph_always_creates ==
    [returned |-> "compiled", global |-> "compiled", created |-> TRUE]

\* returned: what the call returns; global: workflow_graph after the call;
\* created: whether create_workflow_graph was called
get_workflow_graph ==
    IF workflow_graph = "None"
    THEN [returned |-> "compiled", global |-> "compiled", created |-> TRUE]
    ELSE [returned |-> workflow_graph, global |-> workflow_graph,
          created |-> FALSE]

\* mutant: zero is let through
is_invalid_id_negative_only(pid) == pid < 0

\* the handler's first test: request.provider_id <= 0 raises HTTP 400
is_invalid_id(pid) == pid <= 0

initial_state(pid) ==
    [provider_id |-> pid, current_db_data |-> <<>>, scraped_data |-> <<>>,
     discrepancies |-> <<>>, confidence_score |-> 0, status |-> "pending"]

http_400 ==
    [status_code |-> 400, detail |-> "Provider ID must be a positive integer"]

http_500 ==
    [status_code |-> 500, detail |-> "Workflow execution failed"]

workflow_steps_of(final_state) ==
    IF final_state["confidence_score"] > 80
    THEN <<"fetch_provider", "scrape_web", "quality_assurance", "update_db">>
    ELSE <<"fetch_provider", "scrape_web", "quality_assurance", "flag_review">>

message_of(pid, final_state) ==
    IF final_state["status"] = "verified"
    THEN <<"Provider ", pid, " has been verified and updated in the database.">>
    ELSE <<"Provider ", pid,
           " has been flagged for human review due to data discrepancies.">>

WorkflowResponse(pid, final_state) ==
    [status_code |-> 200,
     success |-> TRUE,
     provider_id |-> final_state["provider_id"],
     status |-> final_state["status"],
     confidence_score |-> final_state["confidence_score"],
     current_db_data |-> final_state["current_db_data"],
     scraped_data |-> final_state["scraped_data"],
     discrepancies |-> final_state["discrepancies"],
     workflow_steps |-> workflow_steps_of(final_state),
     message |-> message_of(pid, final_state)]

\* one served request, as the log keeps it
LogEntry(pid, response, nodes_run, before, after) ==
    [provider_id |-> pid, response |-> response, executed |-> nodes_run,
     graph_before |-> before, graph_after |-> after]

EmptyDict == <<>>

ProviderIds == {-1, 0, 1, 7} \cup TableIds

\* validate_provider up to graph.invoke(initial_state)
ValidateProvider(pid) ==
    /\ pc = "idle"
    /\ Len(log) < MaxRequests
    /\ request_id' = pid
    /\ graph_at_entry' = workflow_graph
    /\ UNCHANGED <<undeclared_keys_kept, qa_input, executed>>
    /\ IF is_invalid_id(pid)
       THEN /\ UNCHANGED <<workflow_graph, graphs_created, state, pc>>
            /\ log' = Append(log, LogEntry(pid, http_400, executed',
                                           graph_at_entry', workflow_graph'))
       ELSE LET graph == get_workflow_graph
            IN  /\ workflow_graph' = graph.global
                /\ graphs_created' =
                      graphs_created + (IF graph.created THEN 1 ELSE 0)
                /\ IF graph.returned = "None"
                   THEN \* None.invoke raises; the except clause answers 500
                        /\ UNCHANGED <<state, pc>>
                        /\ log' = Append(log, LogEntry(pid, http_500, executed',
                                                       graph_at_entry',
                                                       workflow_graph'))
                   ELSE /\ state' = initial_state(pid)
                        /\ pc' = entry_point
                        /\ UNCHANGED log

\* validate_provider after graph.invoke has returned final_state
Respond ==
    /\ pc = "END"
    /\ pc' = "idle"
    /\ log' = Append(log, LogEntry(request_id,
                                   WorkflowResponse(request_id, state),
                                   executed, graph_at_entry, workflow_graph))
    /\ state' = EmptyDict
    /\ qa_input' = EmptyDict
    /\ executed' = <<>>
    /\ UNCHANGED <<workflow_graph, undeclared_keys_kept, request_id,
                   graph_at_entry, graphs_created>>

(***************************************************************************)
(* Spec: the service.  Requests arrive one at a time (the handler never    *)
(* awaits), each runs the graph to END and is answered.                    *)
(***************************************************************************)
Init ==
    /\ workflow_graph = "None"
    /\ undeclared_keys_kept \in BOOLEAN
    /\ pc = "idle"
    /\ request_id = 0
    /\ state = EmptyDict
    /\ qa_input = EmptyDict
    /\ executed = <<>>
    /\ graph_at_entry = "None"
    /\ graphs_created = 0
    /\ log = <<>>

Next ==
    \/ \E pid \in ProviderIds : ValidateProvider(pid)
    \/ FetchProvider
    \/ ScrapeWeb
    \/ QualityAssurance
    \/ UpdateDb
    \/ FlagReview
    \/ Respond

Spec == Init /\ [][Next]_vars

(***************************************************************************)
(* SpecQA: quality_assurance_node, the router and the terminal node as     *)
(* functions of the state they are handed.  The state is drawn from three  *)
(* families of record pairs.                                               *)
(***************************************************************************)
Alphabet == {"a", "b", "A", " "}

StrsOfLen(n) == [1..n -> Alphabet]

present(v) == [present |-> TRUE, value |-> v]

absent == [present |-> FALSE, value |-> <<>>]

\* pairs of field values of at most MaxPairLen characters together; either
\* side may also be left out of its record
PairChoices ==
    UNION {{<<a, b>> :
               a \in {present(v) : v \in StrsOfLen(i)} \cup {absent},
               b \in {present(v) : v \in StrsOfLen(j)} \cup {absent}} :
           <<i, j>> \in {p \in (0..MaxPairLen) \X (0..MaxPairLen) :
                            p[1] + p[2] <= MaxPairLen}}

no_hint == [present |-> FALSE, value |-> 0]

HintChoices ==
    {[present |-> TRUE, value |-> b] : b \in (0 - HintSlack)..(100 + HintSlack)}
        \cup {no_hint}

FieldSet == {fields_to_compare[i] : i \in 1..Len(fields_to_compare)}

\* a record whose nine fields all hold the same short value
base_record == [f \in FieldSet |-> <<"k", "1">>]

different_value == <<"Z">>

with_field(rec, field, choice) ==
    IF choice.present
    THEN [rec EXCEPT ![field] = choice.value]
    ELSE [k \in DOMAIN rec \ {field} |-> rec[k]]

\* the state handed to quality_assurance_node
qa_state(pid, db_data, scraped_data, hint) ==
    LET s == [initial_state(pid) EXCEPT !.current_db_data = db_data,
                                        !.scraped_data = scraped_data]
    IN  IF hint.present
        THEN dict_set(s, "_expected_confidence", hint.value)
        ELSE s

\* one field takes every pair of short values, the other eight agree
OneFieldInputs ==
    {qa_state(1, with_field(base_record, f, p[1]), with_field(base_record, f, p[2]),
              no_hint) :
        f \in FieldSet, p \in PairChoices}

\* the first n or the last n fields disagree
DisagreeingSets ==
    {{fields_to_compare[i] : i \in 1..n} : n \in 0..Len(fields_to_compare)}
        \cup {{fields_to_compare[i] : i \in (Len(fields_to_compare) - n + 1)..
                                          Len(fields_to_compare)} :
                 n \in 0..Len(fields_to_compare)}

\* the fields of D disagree, under every baseline hint
CountInputs ==
    {qa_state(1, base_record,
              [k \in DOMAIN base_record |->
                  IF k \in D THEN different_value ELSE base_record[k]], h) :
        D \in DisagreeingSets, h \in HintChoices}

\* the record pairs of the table, with and without their baseline
TableInputs ==
    UNION {{qa_state(pid, get_mock_provider_data(pid).db,
                     get_mock_provider_data(pid).scraped, h) :
               h \in {[present |-> TRUE,
                       value |-> get_mock_provider_data(pid).confidence],
                      no_hint}} :
           pid \in TableIds \cup {7}}

\* a record with no field at all
empty_record == [f \in {} |-> <<>>]

\* either record, or both, without any field, under every baseline hint
EmptyInputs ==
    {qa_state(1, db_data, scraped_data, h) :
        db_data \in {empty_record, base_record},
        scraped_data \in {empty_record, base_record},
        h \in HintChoices}

QAInit ==
    /\ workflow_graph = "compiled"
    /\ pc = "quality_assurance"
    /\ \/ /\ state \in OneFieldInputs
          \* no undeclared key is in these states
          /\ undeclared_keys_kept = FALSE
       \/ /\ state \in CountInputs \cup TableInputs \cup EmptyInputs
          /\ undeclared_keys_kept \in BOOLEAN
    /\ request_id = state["provider_id"]
    /\ qa_input = EmptyDict
    /\ executed = <<>>
    /\ graph_at_entry = "compiled"
    /\ graphs_created = 1
    /\ log = <<>>

QANext ==
    \/ QualityAssurance
    \/ UpdateDb
    \/ FlagReview

SpecQA == QAInit /\ [][QANext]_vars

(***************************************************************************)
(* Properties of quality_assurance_node and the router (SpecQA).           *)
(***************************************************************************)
\* quality_assurance_node has just returned; pc is the branch the router took
AfterQA == pc \in {"update_db", "flag_review"}

HintGiven == "_expected_confidence" \in DOMAIN qa_input

reference_value(f) == dict_get(qa_input["current_db_data"], f)

observed_value(f) == dict_get(qa_input["scraped_data"], f)

\* the three equivalence checks all fail for field f
NotEquivalent(f) ==
    LET a == normalized(reference_value(f))
        b == normalized(observed_value(f))
    IN  /\ a # b
        /\ ~ contains(a, b)
        /\ ~ contains(b, a)
        /\ ~ (f = "address"
              /\ split_len(observed_value(f)) = split_len(reference_value(f)) + 1)

Recorded(f) ==
    \E i \in 1..Len(state["discrepancies"]) : state["discrepancies"][i].field = f

\* C1: the router takes the update_db branch exactly when the confidence score
\* is greater than 80 and the flag_review branch otherwise, whatever else the
\* state holds; 81 goes to update_db, 80 and 0 go to flag_review.
C1_RouterThreshold ==
    AfterQA =>
        /\ (pc = "update_db") <=> (state["confidence_score"] > 80)
        /\ (pc = "flag_review") <=> (state["confidence_score"] <= 80)
        /\ state["confidence_score"] = 81 => pc = "update_db"
        /\ state["confidence_score"] \in {0, 80} => pc = "flag_review"

C1_Witness ==
    /\ AfterQA
    /\ state["confidence_score"] = 80
    /\ pc = "flag_review"

\* C2: the confidence score written by quality_assurance_node lies in 0..100,
\* with or without a baseline hint and for any integer hint.
C2_ConfidenceInRange ==
    AfterQA => state["confidence_score"] \in 0..100

\* C3: a discrepancy is recorded for a compared field exactly when the
\* normalized values differ, neither contains the other, and it is not the
\* address field with the observed value one word longer than the reference;
\* normalized-equal values record nothing, and a recorded discrepancy carries
\* the values as they were given, once per field and in field order.
C3_DiscrepancyIffAllChecksFail ==
    AfterQA =>
        /\ \A f \in FieldSet : Recorded(f) <=> NotEquivalent(f)
        /\ \A f \in FieldSet :
              normalized(reference_value(f)) = normalized(observed_value(f))
                  => ~ Recorded(f)
        /\ \A i \in 1..Len(state["discrepancies"]) :
              LET d == state["discrepancies"][i]
              IN  /\ d.field \in FieldSet
                  /\ d.db_value = reference_value(d.field)
                  /\ d.scraped_value = observed_value(d.field)
                  /\ \A j \in 1..Len(state["discrepancies"]) :
                        state["discrepancies"][j].field = d.field => j = i

\* the address allowance alone keeps the address out of the list
C3_Witness ==
    /\ AfterQA
    /\ state["discrepancies"] = <<>>
    /\ LET a == normalized(reference_value("address"))
           b == normalized(observed_value("address"))
       IN  a # b /\ ~ contains(a, b) /\ ~ contains(b, a)

\* C4: when one normalized value is contained in the other, no discrepancy is
\* recorded for the field, whichever of the two records holds the shorter value.
C4_SubstringSymmetric ==
    AfterQA =>
        \A f \in FieldSet :
            LET a == normalized(reference_value(f))
                b == normalized(observed_value(f))
            IN  (contains(a, b) \/ contains(b, a)) => ~ Recorded(f)

\* the observed value is properly contained in the reference value
C4_Witness ==
    /\ AfterQA
    /\ \E f \in FieldSet \ {"address"} :
          LET a == normalized(reference_value(f))
              b == normalized(observed_value(f))
          IN  /\ b # <<>>
              /\ Len(b) < Len(a)
              /\ contains(b, a)
              /\ ~ Recorded(f)

\* C5: with a baseline hint b, the confidence score for n discrepancies is
\* max(0, b - 5n), for every integer b and every n in 0..9.
C5_BaselineMinusFive ==
    (AfterQA /\ HintGiven) =>
        state["confidence_score"] =
            max0(qa_input["_expected_confidence"] - 5 * Len(state["discrepancies"]))

\* C6: without a baseline hint the confidence score is 95 for no discrepancy,
\* 75 for one and max(0, 100 - 20n) for n >= 2; identical records end verified
\* with 95, and records that differ only in phone end flagged with 75 and the
\* one discrepancy.
C6_FallbackScore ==
    LET n == Len(state["discrepancies"])
        score == state["confidence_score"]
    IN  /\ (AfterQA /\ ~ HintGiven) =>
              /\ n = 0 => score = 95
              /\ n = 1 => score = 75
              /\ n >= 2 => score = (IF 100 - 20 * n > 0 THEN 100 - 20 * n ELSE 0)
        /\ (pc = "END" /\ ~ HintGiven
                /\ qa_input["current_db_data"] = qa_input["scraped_data"]) =>
              /\ n = 0
              /\ score = 95
              /\ state["status"] = "verified"
        /\ (pc = "END" /\ ~ HintGiven
                /\ \A f \in FieldSet : NotEquivalent(f) <=> f = "phone") =>
              /\ n = 1
              /\ state["discrepancies"][1].field = "phone"
              /\ score = 75
              /\ state["status"] = "flagged"

\* the phone numbers of the example, compared without a baseline
C6_Witness ==
    /\ pc = "END"
    /\ ~ HintGiven
    /\ reference_value("phone") =
          <<"+","9","1","-","1","1","-","2","6","5","8","-","3","4","5","6">>
    /\ observed_value("phone") =
          <<"+","9","1","-","1","1","-","2","6","5","8","-","3","4","5","7">>
    /\ Len(state["discrepancies"]) = 1
    /\ state["confidence_score"] = 75
    /\ state["status"] = "flagged"

(***************************************************************************)
(* Properties of the service (Spec).                                       *)
(***************************************************************************)
Served == {log[i] : i \in 1..Len(log)}

Succeeded(e) == e.response.status_code = 200

verified_text == " has been verified and updated in the database."

\* C7: a request whose provider_id is 0 or negative is answered 400 before
\* any pipeline step: the graph is neither created nor invoked, no node runs,
\* and no success response is produced.
C7_InvalidIdRejected ==
    /\ \A e \in Served :
          e.provider_id <= 0 =>
              /\ e.response.status_code = 400
              /\ ~ Succeeded(e)
              /\ e.executed = <<>>
              /\ e.graph_after = e.graph_before
    /\ request_id <= 0 => pc = "idle" /\ executed = <<>> /\ state = EmptyDict
    /\ (pc = "idle" /\ \A e \in Served : e.provider_id <= 0)
          => workflow_graph = "None"

\* both a zero and a negative identifier have been turned away
C7_Witness ==
    /\ \E e \in Served : e.provider_id = 0 /\ e.response = http_400
    /\ \E e \in Served : e.provider_id < 0 /\ e.response = http_400
    /\ workflow_graph = "None"

\* C8: for a positive provider_id the run ends with status verified exactly
\* when the final confidence score is greater than 80 and flagged otherwise,
\* never pending, and the reported workflow_steps and message name the update
\* path exactly when the status is verified.
C8_StatusMatchesConfidence ==
    /\ pc = "END" =>
          /\ state["status"] \in {"verified", "flagged"}
          /\ (state["status"] = "verified") <=> (state["confidence_score"] > 80)
    /\ \A e \in Served :
          e.provider_id > 0 =>
              /\ Succeeded(e)
              /\ e.response.status \in {"verified", "flagged"}
              /\ (e.response.status = "verified")
                    <=> (e.response.confidence_score > 80)
              /\ (e.response.workflow_steps[4] = "update_db")
                    <=> (e.response.status = "verified")
              /\ (e.response.workflow_steps[4] = "flag_review")
                    <=> (e.response.status = "flagged")
              /\ (e.response.message[3] = verified_text)
                    <=> (e.response.status = "verified")
              /\ e.executed = e.response.workflow_steps

\* one request ended verified and another flagged
C8_Witness ==
    /\ \E e \in Served : e.provider_id > 0 /\ e.response.status = "verified"
    /\ \E e \in Served : e.provider_id > 0 /\ e.response.status = "flagged"

\* C9: the documented example identifiers end in their documented bands:
\* 1001, 1002, 1003, 4001 above 80 and verified; 2001, 2002 within 70..80 and
\* flagged; 3001, 3002 below 70 and flagged.
C9_DocumentedBands ==
    \A e \in Served :
        /\ e.provider_id \in {1001, 1002, 1003, 4001} =>
              e.response.confidence_score > 80 /\ e.response.status = "verified"
        /\ e.provider_id \in {2001, 2002} =>
              /\ e.response.confidence_score \in 70..80
              /\ e.response.status = "flagged"
        /\ e.provider_id \in {3001, 3002} =>
              e.response.confidence_score < 70 /\ e.response.status = "flagged"

\* C10: two requests with the same provider_id are answered alike, whatever
\* was served before or between them.
C10_SameIdSameResponse ==
    \A i, j \in 1..Len(log) :
        log[i].provider_id = log[j].provider_id => log[i].response = log[j].response

\* the same identifier served twice with a different one in between
C10_Witness ==
    /\ Len(log) >= 3
    /\ log[1].provider_id = log[3].provider_id
    /\ log[1].provider_id > 0
    /\ log[2].provider_id # log[1].provider_id
    /\ log[1].response = log[3].response

(***************************************************************************)
(* The shape of one graph.invoke (Spec).                                   *)
(***************************************************************************)
IsPrefix(s, t) == Len(s) <= Len(t) /\ SubSeq(t, 1, Len(s)) = s

UpdatePath == <<"fetch_provider", "scrape_web", "quality_assurance", "update_db">>

FlagPath == <<"fetch_provider", "scrape_web", "quality_assurance", "flag_review">>

\* the nodes run so far are a run of the straight line, and pc is the next one
RunInOrder ==
    /\ IsPrefix(executed, UpdatePath) \/ IsPrefix(executed, FlagPath)
    /\ pc = "fetch_provider" => executed = <<>>
    /\ pc = "scrape_web" => executed = <<"fetch_provider">>
    /\ pc = "quality_assurance" /\ log # <<>> =>
          executed = <<"fetch_provider", "scrape_web">>
    /\ pc = "update_db" /\ log # <<>> => Len(executed) = 3
    /\ pc = "flag_review" /\ log # <<>> => Len(executed) = 3
    /\ pc = "END" => executed \in {UpdatePath, FlagPath}
    /\ \A e \in Served :
          e.provider_id > 0 => e.executed \in {UpdatePath, FlagPath}

\* how far a run has come: the nodes in graph order, END, then answered
Position(p) ==
    CASE p = "fetch_provider"    -> 1
      [] p = "scrape_web"        -> 2
      [] p = "quality_assurance" -> 3
      [] p = "update_db"         -> 4
      [] p = "flag_review"       -> 4
      [] p = "END"               -> 5
      [] p = "idle"              -> 6

\* a step of a run moves strictly forward; a request starts at the entry point
\* or is answered at once
StepsForward ==
    /\ pc # "idle" => Position(pc') > Position(pc)
    /\ pc = "idle" => pc' \in {"idle", "fetch_provider"}
    /\ pc \in {"update_db", "flag_review"} => pc' = "END"

TerminalStepFrame ==
    pc \in {"update_db", "flag_review"} =>
        /\ DOMAIN state' = DOMAIN state
        /\ \A k \in DOMAIN state \ {"status"} : state'[k] = state[k]
        /\ state'["status"] = (IF pc = "update_db" THEN "verified" ELSE "flagged")

\* C12: update_db_node and flag_review_node change only the status:
\* provider_id, current_db_data, scraped_data, discrepancies and
\* confidence_score leave the node as quality_assurance_node wrote them.
C12_TerminalNodesOnlySetStatus == [][TerminalStepFrame]_vars

\* a flagged run has ended still carrying its discrepancies and its score
C12_Witness ==
    /\ pc = "END"
    /\ state["status"] = "flagged"
    /\ Len(state["discrepancies"]) >= 2
    /\ state["confidence_score"] > 0
    /\ state["current_db_data"] = qa_input["current_db_data"]

(***************************************************************************)
(* Missing and blank values (SpecQA).                                      *)
(***************************************************************************)
\* the record has no value for f, or one made of whitespace only
Blank(rec, f) ==
    \/ f \notin DOMAIN rec
    \/ \A i \in 1..Len(rec[f]) : rec[f][i] \in Whitespace

NoFields(rec) == DOMAIN rec \cap FieldSet = {}

\* C13: a field that is missing, empty or whitespace-only in either record
\* never produces a discrepancy, whatever the other record holds; two records
\* without any field give no discrepancy and the score of the no-discrepancy
\* branch: 95 without a baseline hint, the baseline itself with one.
C13_BlankNeverDiffers ==
    AfterQA =>
        /\ \A f \in FieldSet :
              (Blank(qa_input["current_db_data"], f)
                  \/ Blank(qa_input["scraped_data"], f)) => ~ Recorded(f)
        /\ (NoFields(qa_input["current_db_data"])
               /\ NoFields(qa_input["scraped_data"])) =>
              /\ state["discrepancies"] = <<>>
              /\ state["confidence_score"] =
                    (IF HintGiven THEN qa_input["_expected_confidence"] ELSE 95)

\* the reference record has no field, the observed record has them all
C13_Witness ==
    /\ AfterQA
    /\ NoFields(qa_input["current_db_data"])
    /\ \A f \in FieldSet : ~ Blank(qa_input["scraped_data"], f)
    /\ state["discrepancies"] = <<>>
    /\ HintGiven
    /\ state["confidence_score"] = qa_input["_expected_confidence"]

(***************************************************************************)
(* Identifiers outside the table (Spec).                                   *)
(***************************************************************************)
\* the two records differ in phone and in nothing else
DiffersOnlyInPhone(db_data, scraped_data) ==
    /\ DOMAIN db_data = DOMAIN scraped_data
    /\ \A k \in DOMAIN db_data : (db_data[k] # scraped_data[k]) <=> (k = "phone")

\* C14: a positive provider_id outside the table is served the default record
\* pair carrying that id and differing only in phone; its run records exactly
\* one discrepancy, for phone, and ends flagged with confidence_score 70.
C14_DefaultProvider ==
    \A e \in Served :
        (e.provider_id > 0 /\ e.provider_id \notin TableIds) =>
            /\ Succeeded(e)
            /\ e.response.current_db_data["id"] = e.provider_id
            /\ e.response.scraped_data["id"] = e.provider_id
            /\ DiffersOnlyInPhone(e.response.current_db_data,
                                  e.response.scraped_data)
            /\ Len(e.response.discrepancies) = 1
            /\ e.response.discrepancies[1].field = "phone"
            /\ e.response.confidence_score = 70
            /\ e.response.status = "flagged"

(***************************************************************************)
(* The lazily created global graph (Spec).                                 *)
(***************************************************************************)
\* a request with a positive provider_id has been answered or is being served
PositiveRequestSeen ==
    \/ \E e \in Served : e.provider_id > 0
    \/ pc # "idle"

GraphMatchesRequests ==
    /\ workflow_graph \in {"None", "compiled"}
    /\ graphs_created <= 1
    /\ (workflow_graph = "None") <=> (graphs_created = 0)
    /\ (workflow_graph = "None") <=> ~ PositiveRequestSeen
    /\ \A i \in 1..Len(log) :
          /\ log[i].graph_before =
                (IF \E j \in 1..(i - 1) : log[j].provider_id > 0
                 THEN "compiled" ELSE "None")
          /\ log[i].provider_id <= 0 => log[i].graph_after = log[i].graph_before
          /\ log[i].provider_id > 0 => log[i].graph_after = "compiled"

\* no step resets, replaces or rebuilds a graph that exists, and a rejected
\* request leaves the global as it was
GraphKept ==
    /\ workflow_graph = "compiled" =>
          workflow_graph' = "compiled" /\ graphs_created' = graphs_created
    /\ (pc = "idle" /\ request_id' <= 0) =>
          workflow_graph' = workflow_graph /\ graphs_created' = graphs_created

\* C15: over any sequence of requests the global workflow graph is created at
\* most once: it is None until the first request with a positive provider_id,
\* that request creates it, a rejected request never creates or touches it,
\* and once set it is never replaced or reset to None.
C15_GraphCreatedOnce ==
    /\ [] GraphMatchesRequests
    /\ [][GraphKept]_vars

\* rejected, then created by the first positive request, then used again
C15_Witness ==
    /\ Len(log) >= 3
    /\ log[1].provider_id <= 0
    /\ log[1].graph_after = "None"
    /\ log[2].provider_id > 0
    /\ log[2].graph_before = "None"
    /\ log[2].graph_after = "compiled"
    /\ log[3].provider_id > 0
    /\ log[3].graph_before = "compiled"
    /\ graphs_created = 1
=============================================================================
